---- MODULE Spec2Model ----
(***************************************************************************)
(* CampusNotes development server (src/dev-server.js): the file-based      *)
(* note store (notesStore, loadNotes, saveNotes, getNotes, addNote,        *)
(* deleteNote, findNote) and the two request handlers that mutate it       *)
(* (POST /api/upload, DELETE /api/data/:id).                               *)
(*                                                                         *)
(* JavaScript strings are sequences of one-character strings, so that      *)
(* trim() and Number.prototype.toString() are computed, not assumed.       *)
(* A value that is null or undefined is the empty sequence <<>> where a    *)
(* record or a list is expected.                                           *)
(*                                                                         *)
(* Spec is the server: the handlers are the callers of the store.          *)
(* StoreSpec is the store module alone, its exported functions called in   *)
(* any order with any record. LoadSpec is the store module from before its *)
(* initialization: loadNotes() runs first, then the exported functions.    *)
(***************************************************************************)
EXTENDS Integers, Sequences, FiniteSets

\* ------------------------------------------------------------------ bounds
\* Largest value the clock (Date.now()) takes.
MaxClock == 2
\* Largest length of notesStore: add calls are not taken beyond it.
MaxNotes == 3
\* Number of HTTP requests (upload or delete) over a run.
MaxReq == 2
\* Number of failing writes of the backing file over a run.
MaxWriteFail == 1

VARIABLES
    notesStore,   \* the in-memory collection (let notesStore)
    file,         \* the backing file notes-data.json
    clock,        \* Date.now()
    reqs,         \* the upload and delete requests, by request number
    last,         \* the last call a user of the store module made, with its result
    wfails,       \* failing writes so far
    loaded,       \* loadNotes() has run (module initialization is over)
    storeKind     \* what notesStore is: "array", its elements being notesStore,
                  \* or "object", a value parsed from the file that is no array

vars == <<notesStore, file, clock, reqs, last, wfails, loaded, storeKind>>

\* ------------------------------------------------------------ JS values
DigitChars == <<"0", "1", "2", "3", "4", "5", "6", "7", "8", "9">>

\* Number.prototype.toString() of a non-negative integer.
RECURSIVE ToString(_)
ToString(n) ==
    IF n < 10 THEN <<DigitChars[n + 1]>>
    ELSE ToString(n \div 10) \o <<DigitChars[(n % 10) + 1]>>

\* String.prototype.trim(): leading and trailing blanks removed.
RECURSIVE TrimLeft(_)
TrimLeft(s) ==
    IF s # <<>> /\ Head(s) = " " THEN TrimLeft(Tail(s)) ELSE s

RECURSIVE TrimRight(_)
TrimRight(s) ==
    IF s # <<>> /\ s[Len(s)] = " " THEN TrimRight(SubSeq(s, 1, Len(s) - 1)) ELSE s

Trim(s) == TrimRight(TrimLeft(s))

\* A Date object, and the ISO string JSON.stringify makes of it.
DateObj(t) == [type |-> "Date", ms |-> t]
IsoString(t) == [type |-> "string", ms |-> t]

\* new Date(x) - 0: the instant of a Date or of an ISO string.
TimeOf(x) == x.ms

Note(id, title, createdAt, fileUrl, publicId) ==
    [id |-> id, title |-> title, createdAt |-> createdAt,
     fileUrl |-> fileUrl, publicId |-> publicId]

\* JSON.stringify of one record: a Date becomes its ISO string.
StringifyNote(n) == [n EXCEPT !.createdAt = IsoString(TimeOf(n.createdAt))]

\* JSON.stringify(notesStore, null, 2)
JSONStringify(s) == [i \in 1..Len(s) |-> StringifyNote(s[i])]

\* JSON.parse of the text of an array. The text is held as the value it
\* denotes, so parsing hands that value over: an ISO string stays a string and
\* no Date comes back.
JSONParse(text) == text

\* ------------------------------------------------------------ the file
AbsentFile == [kind |-> "absent", data |-> <<>>]
CorruptFile == [kind |-> "corrupt", data |-> <<>>]
JsonFile(text) == [kind |-> "json", data |-> text]
\* A file whose text is JSON but not an array: the text {} and the text null.
JsonObjectFile == [kind |-> "jsonObject", data |-> <<>>]
JsonNullFile == [kind |-> "jsonNull", data |-> <<>>]

\* Outcomes of fs.writeFileSync: the text is written, or the call throws
\* before the file is opened and the file is as it was.
WriteOutcomes == {"ok", "EACCES"}

WriteFileSync(f, text, w) == IF w = "ok" THEN JsonFile(text) ELSE f

\* saveNotes(): the error of a failing write is caught and logged.
saveNotes(s, f, w) == WriteFileSync(f, JSONStringify(s), w)

\* loadNotes() whose catch also calls saveNotes(): a file that cannot be read
\* as JSON is overwritten with the empty array.
loadNotesSavingOnError(f, w) ==
    CASE f.kind = "json" ->
            [store |-> JSONParse(f.data), kind |-> "array", file |-> f, wrote |-> FALSE]
      [] f.kind = "jsonObject" ->
            [store |-> <<>>, kind |-> "object", file |-> f, wrote |-> FALSE]
      [] f.kind = "absent" ->
            [store |-> <<>>, kind |-> "array", file |-> saveNotes(<<>>, f, w), wrote |-> TRUE]
      [] OTHER ->
            [store |-> <<>>, kind |-> "array", file |-> saveNotes(<<>>, f, w), wrote |-> TRUE]

\* loadNotes(): the collection and the file after module initialization.
\* A JSON array becomes the collection, and so does a JSON object, whose
\* .length is undefined. The text null is parsed, but reading null.length
\* throws; that and the SyntaxError of text that is no JSON reach the catch,
\* which makes the collection [] and writes nothing. Without a file the
\* collection is [] and saveNotes() is called.
loadNotes(f, w) ==
    CASE f.kind = "json" ->
            [store |-> JSONParse(f.data), kind |-> "array", file |-> f, wrote |-> FALSE]
      [] f.kind = "jsonObject" ->
            [store |-> <<>>, kind |-> "object", file |-> f, wrote |-> FALSE]
      [] f.kind = "absent" ->
            [store |-> <<>>, kind |-> "array", file |-> saveNotes(<<>>, f, w), wrote |-> TRUE]
      [] OTHER ->
            [store |-> <<>>, kind |-> "array", file |-> f, wrote |-> FALSE]

\* ------------------------------------------------------- store functions
\* Array.prototype.sort with (a, b) => new Date(b.createdAt) - new Date(a.createdAt):
\* stable, descending by instant.
Insert(s, x) ==
    LET k == Cardinality({i \in 1..Len(s) : TimeOf(s[i].createdAt) >= TimeOf(x.createdAt)})
    IN  SubSeq(s, 1, k) \o <<x>> \o SubSeq(s, k + 1, Len(s))

RECURSIVE SortDesc(_)
SortDesc(s) ==
    IF s = <<>> THEN <<>>
    ELSE Insert(SortDesc(SubSeq(s, 1, Len(s) - 1)), s[Len(s)])

\* getNotes that first turns each createdAt into the Date it compares by: a
\* record loaded from the file has its ISO string replaced.
getNotesConvertingDates(s) ==
    SortDesc([i \in 1..Len(s) |-> [s[i] EXCEPT !.createdAt = DateObj(TimeOf(s[i].createdAt))]])

\* getNotes with the comparator's operands exchanged: oldest first.
getNotesOldestFirst(s) == [i \in 1..Len(s) |-> SortDesc(s)[Len(s) + 1 - i]]

\* getNotes(): the array is sorted in place and returned.
getNotes(s) == SortDesc(s)

\* Array.prototype.findIndex(note => note.id === id): 0 stands for -1.
FindIndex(s, id) ==
    IF \E i \in 1..Len(s) : s[i].id = id
    THEN CHOOSE i \in 1..Len(s) : s[i].id = id /\ \A j \in 1..(i - 1) : s[j].id # id
    ELSE 0

\* Array.prototype.splice(i, 1)
Splice(s, i) == SubSeq(s, 1, i - 1) \o SubSeq(s, i + 1, Len(s))

\* findNote with note => note.id = id, an assignment that is truthy for every
\* record: the first record of the collection whatever its id.
findNoteAssigning(s, id) == IF s = <<>> THEN <<>> ELSE <<s[1]>>

\* findNote(id): the first record with that id, or undefined.
findNote(s, id) ==
    LET i == FindIndex(s, id) IN IF i = 0 THEN <<>> ELSE <<s[i]>>

\* addNote with notesStore.concat(note), which leaves notesStore as it was.
addNoteConcat(s, f, note, w) ==
    [store |-> s, file |-> saveNotes(s, f, w), ret |-> <<note>>, wrote |-> TRUE]

\* addNote(note): push, saveNotes, return note. `wrote` tells that saveNotes ran.
addNote(s, f, note, w) ==
    LET pushed == Append(s, note)
    IN  [store |-> pushed, file |-> saveNotes(pushed, f, w), ret |-> <<note>>,
         wrote |-> TRUE]

\* deleteNote with slice for splice: the array keeps the record.
deleteNoteSlice(s, f, id, w) ==
    LET noteIndex == FindIndex(s, id)
    IN  IF noteIndex = 0
        THEN [store |-> s, file |-> f, ret |-> <<>>, wrote |-> FALSE]
        ELSE [store |-> s, file |-> saveNotes(s, f, w), ret |-> <<s[noteIndex]>>,
              wrote |-> TRUE]

\* deleteNote without its early return: splice(-1, 1) drops the last record,
\* the file is written and undefined is returned.
deleteNoteNoGuard(s, f, id, w) ==
    LET noteIndex == FindIndex(s, id)
        spliced == IF noteIndex = 0 THEN SubSeq(s, 1, Len(s) - 1) ELSE Splice(s, noteIndex)
    IN  [store |-> spliced, file |-> saveNotes(spliced, f, w),
         ret |-> IF noteIndex = 0 THEN <<>> ELSE <<s[noteIndex]>>, wrote |-> TRUE]

\* deleteNote written with filter in place of findIndex and splice: every
\* record with the id is dropped.
deleteNoteFilter(s, f, id, w) ==
    LET noteIndex == FindIndex(s, id)
    IN  IF noteIndex = 0
        THEN [store |-> s, file |-> f, ret |-> <<>>, wrote |-> FALSE]
        ELSE LET kept == SelectSeq(s, LAMBDA n : n.id # id)
             IN  [store |-> kept, file |-> saveNotes(kept, f, w),
                  ret |-> <<s[noteIndex]>>, wrote |-> TRUE]

\* deleteNote(id): null and nothing else when no record has the id.
deleteNote(s, f, id, w) ==
    LET noteIndex == FindIndex(s, id)
    IN  IF noteIndex = 0
        THEN [store |-> s, file |-> f, ret |-> <<>>, wrote |-> FALSE]
        ELSE LET spliced == Splice(s, noteIndex)
             IN  [store |-> spliced, file |-> saveNotes(spliced, f, w),
                  ret |-> <<s[noteIndex]>>, wrote |-> TRUE]

\* ------------------------------------------- the functions as exported
\* Each exported function is one try block with a catch that logs the error
\* and returns a fixed value. On an array the try block runs to its end; on a
\* collection that is no array the first method call (sort, push, findIndex,
\* find) is a TypeError, before anything is changed or written.
Returned(o) ==
    [store |-> o.store, file |-> o.file, ret |-> o.ret, wrote |-> o.wrote, threw |-> FALSE]
Thrown(s, f) == [store |-> s, file |-> f, ret |-> <<>>, wrote |-> FALSE, threw |-> TRUE]

\* A function without its try and catch: the error goes on to the caller.
Rethrow(o, value) == o

\* catch (error) { console.error(...); return value; }
Catch(o, value) == IF o.threw THEN [o EXCEPT !.ret = value, !.threw = FALSE] ELSE o

\* getNotes() on a collection of the kind given: [] from the catch.
getNotesOn(kind, s, f) ==
    Catch(IF kind = "array"
          THEN Returned([store |-> getNotes(s), file |-> f, ret |-> getNotes(s), wrote |-> FALSE])
          ELSE Thrown(s, f),
          <<>>)

\* addNote(note) on a collection of the kind given: null from the catch.
addNoteOn(kind, s, f, note, w) ==
    Catch(IF kind = "array" THEN Returned(addNote(s, f, note, w)) ELSE Thrown(s, f), <<>>)

\* deleteNote(id) on a collection of the kind given: null from the catch.
deleteNoteOn(kind, s, f, id, w) ==
    Catch(IF kind = "array" THEN Returned(deleteNote(s, f, id, w)) ELSE Thrown(s, f), <<>>)

\* findNote(id) on a collection of the kind given: null from the catch.
findNoteOn(kind, s, f, id) ==
    Catch(IF kind = "array"
          THEN Returned([store |-> s, file |-> f, ret |-> findNote(s, id), wrote |-> FALSE])
          ELSE Thrown(s, f),
          <<>>)

\* --------------------------------------------------------------- inputs
NoString == <<>>

\* Identifiers a delete request names: that of the records of an earlier run,
\* that of the uploads finished at the first clock value, and one that no
\* record ever has.
NeverAddedId == <<"x">>
Ids == {ToString(0), ToString(1), NeverAddedId}

\* Identifiers a caller of the store module names.
CallerIds == {ToString(1), ToString(2), NeverAddedId}

\* Records handed directly to addNote by a caller of the store module.
CallerNotes ==
    {Note(ToString(i), <<"A">>, DateObj(t), NoString, NoString) :
        i \in 1..2, t \in 1..2}

\* The title field of an upload form; <<>> is both an absent and an empty one.
Titles == {<<>>, <<" ">>, <<"A">>}

\* The upload forms received: without a file, and with a file and each title.
UploadForms ==
    {[hasFile |-> FALSE, title |-> <<"A">>]} \cup
    {[hasFile |-> TRUE, title |-> t] : t \in Titles}

\* Records written to the file by an earlier run of the server, before the clock
\* values of this run: one uploaded by the handler, one that has no publicId.
OldNote ==
    Note(ToString(0), <<"A">>, IsoString(0),
         <<"https://">> \o ToString(0) \o <<"_">> \o <<"f">>, ToString(0) \o <<"_">> \o <<"f">>)
BareNote == Note(ToString(0), <<"A">>, IsoString(0), NoString, NoString)

\* The backing file found by module initialization.
InitialFiles ==
    {AbsentFile, CorruptFile, JsonFile(<<OldNote>>), JsonFile(<<BareNote>>),
     JsonObjectFile, JsonNullFile}

\* A write may fail only while fewer than MaxWriteFail writes have failed.
Outcomes == IF wfails < MaxWriteFail THEN WriteOutcomes ELSE {"ok"}
Failed(w) == IF w = "ok" THEN 0 ELSE 1
\* The failing writes of a call that made its write (or none) with outcome w.
FailedIn(call, w) == IF call.wrote THEN Failed(w) ELSE 0

NoCall ==
    [op |-> "none", id |-> NoString, note |-> <<>>, ret |-> <<>>, wrote |-> FALSE,
     threw |-> FALSE]

\* The objects a call of a store function leaves in `last`.
ListCall(g) == [NoCall EXCEPT !.op = "list", !.ret = g.ret, !.threw = g.threw]
AddCall(n, a) ==
    [op |-> "add", id |-> n.id, note |-> <<n>>, ret |-> a.ret, wrote |-> a.wrote,
     threw |-> a.threw]
RemoveCall(id, d) ==
    [NoCall EXCEPT !.op = "remove", !.id = id, !.ret = d.ret, !.wrote = d.wrote,
                   !.threw = d.threw]
FindCall(id, g) == [NoCall EXCEPT !.op = "find", !.id = id, !.ret = g.ret, !.threw = g.threw]

NoReq ==
    [kind |-> "none", pc |-> "idle", status |-> 0, hasFile |-> FALSE,
     title |-> NoString, id |-> NoString, blob |-> "none",
     publicId |-> NoString, note |-> <<>>, ret |-> <<>>]

ReqIds == 1..MaxReq

\* ----------------------------------------------------------------- Init
\* The state after module initialization: loadNotes() has run on the file found.
Init ==
    /\ \E f \in InitialFiles, w \in WriteOutcomes :
          LET l == loadNotes(f, w)
          IN  /\ notesStore = l.store
              /\ storeKind = l.kind
              /\ file = l.file
              /\ wfails = FailedIn(l, w)
    /\ loaded = TRUE
    /\ clock = 1
    /\ reqs = [r \in ReqIds |-> NoReq]
    /\ last = NoCall

\* The state before module initialization: let notesStore = [] and the file
\* as the process finds it.
InitBoot ==
    /\ notesStore = <<>>
    /\ storeKind = "array"
    /\ file \in InitialFiles
    /\ wfails = 0
    /\ loaded = FALSE
    /\ clock = 1
    /\ reqs = [r \in ReqIds |-> NoReq]
    /\ last = NoCall

\* ------------------------------------------------------------- actions
\* Time passes.
Tick ==
    /\ clock < MaxClock
    /\ clock' = clock + 1
    /\ UNCHANGED <<notesStore, file, reqs, last, wfails, loaded, storeKind>>

\* loadNotes() at the end of the module's top level, once.
LoadNotes ==
    /\ ~loaded
    /\ \E w \in Outcomes :
          LET l == loadNotes(file, w)
          IN  /\ notesStore' = l.store
              /\ storeKind' = l.kind
              /\ file' = l.file
              /\ wfails' = wfails + FailedIn(l, w)
    /\ loaded' = TRUE
    /\ UNCHANGED <<clock, reqs, last>>

\* getNotes() called, directly or by GET /api/notes and GET /api/data.
GetNotes ==
    /\ loaded
    /\ LET g == getNotesOn(storeKind, notesStore, file)
       IN  /\ notesStore' = g.store
           /\ last' = ListCall(g)
    /\ UNCHANGED <<file, clock, reqs, wfails, loaded, storeKind>>

\* addNote(n) called by a user of the store module.
AddNote(n) ==
    /\ loaded
    /\ Len(notesStore) < MaxNotes
    /\ \E w \in Outcomes :
          LET a == addNoteOn(storeKind, notesStore, file, n, w)
          IN  /\ notesStore' = a.store
              /\ file' = a.file
              /\ last' = AddCall(n, a)
              /\ wfails' = wfails + FailedIn(a, w)
    /\ UNCHANGED <<clock, reqs, loaded, storeKind>>

\* deleteNote(id) called by a user of the store module.
DeleteNote(id) ==
    /\ loaded
    /\ \E w \in Outcomes :
          LET d == deleteNoteOn(storeKind, notesStore, file, id, w)
          IN  /\ notesStore' = d.store
              /\ file' = d.file
              /\ last' = RemoveCall(id, d)
              /\ wfails' = wfails + FailedIn(d, w)
    /\ UNCHANGED <<clock, reqs, loaded, storeKind>>

\* findNote(id) called by a user of the store module.
FindNote(id) ==
    /\ loaded
    /\ last' = FindCall(id, findNoteOn(storeKind, notesStore, file, id))
    /\ UNCHANGED <<notesStore, file, clock, reqs, wfails, loaded, storeKind>>

\* Requests arrive in the order of their numbers.
Fresh(r) == reqs[r].kind = "none" /\ \A q \in 1..(r - 1) : reqs[q].kind # "none"

\* The name of the uploaded file, and what cloudinary answers for a public_id.
OriginalName == <<"f">>
PublicIdAt(t) == ToString(t) \o <<"_">> \o OriginalName
SecureUrl(publicId) == <<"https://">> \o publicId

\* The validation without its title test.
MissingInputFileOnly(hasFile, title) == ~hasFile

\* !req.file || !title: an absent title and an empty one are both falsy.
MissingInput(hasFile, title) == ~hasFile \/ title = NoString

\* POST /api/upload up to its await: the validation, then the blob upload is started.
UploadStart(r, hasFile, title) ==
    /\ Fresh(r)
    /\ IF MissingInput(hasFile, title)
       THEN reqs' = [reqs EXCEPT ![r] =
                [NoReq EXCEPT !.kind = "upload", !.pc = "done", !.status = 400,
                              !.hasFile = hasFile, !.title = title]]
       ELSE reqs' = [reqs EXCEPT ![r] =
                [NoReq EXCEPT !.kind = "upload", !.pc = "awaitUpload",
                              !.hasFile = hasFile, !.title = title,
                              !.blob = "pending", !.publicId = PublicIdAt(clock)]]
    /\ UNCHANGED <<notesStore, file, clock, last, wfails, loaded, storeKind>>

\* The note object read from uploadResult.publicId and uploadResult.secureUrl,
\* which cloudinary's answer does not have: both are undefined.
NewNoteCamelCase(req, t) ==
    Note(ToString(t), Trim(req.title), DateObj(t), NoString, NoString)

\* The note object of POST /api/upload, made at clock value t: Date.now() for
\* the id and new Date() for createdAt are read in the same millisecond.
NewNote(req, t) ==
    Note(ToString(t), Trim(req.title), DateObj(t), SecureUrl(req.publicId), req.publicId)

\* POST /api/upload with an upload callback that resolves on an error too: the
\* note is added and 201 answered whatever the blob upload did.
UploadFinishIgnoringError(r, ok) ==
    /\ reqs[r].kind = "upload" /\ reqs[r].pc = "awaitUpload"
    /\ Len(notesStore) < MaxNotes
    /\ \E w \in Outcomes :
          LET note == NewNote(reqs[r], clock)
              a == addNoteOn(storeKind, notesStore, file, note, w)
          IN  /\ notesStore' = a.store
              /\ file' = a.file
              /\ wfails' = wfails + FailedIn(a, w)
              /\ reqs' = [reqs EXCEPT ![r].pc = "done", ![r].status = 201,
                                      ![r].blob = IF ok THEN "ok" ELSE "failed",
                                      ![r].note = <<note>>, ![r].ret = a.ret]
    /\ UNCHANGED <<clock, last, loaded, storeKind>>

\* POST /api/upload after its await. The blob upload succeeded (ok): the note is
\* made and added, and 201 is answered. It failed: the catch answers 500.
UploadFinish(r, ok) ==
    /\ reqs[r].kind = "upload" /\ reqs[r].pc = "awaitUpload"
    /\ IF ok
       THEN /\ Len(notesStore) < MaxNotes
            /\ \E w \in Outcomes :
                  LET note == NewNote(reqs[r], clock)
                      a == addNoteOn(storeKind, notesStore, file, note, w)
                  IN  /\ notesStore' = a.store
                      /\ file' = a.file
                      /\ wfails' = wfails + FailedIn(a, w)
                      /\ reqs' = [reqs EXCEPT ![r].pc = "done", ![r].status = 201,
                                              ![r].blob = "ok", ![r].note = <<note>>,
                                              ![r].ret = a.ret]
       ELSE /\ reqs' = [reqs EXCEPT ![r].pc = "done", ![r].status = 500,
                                    ![r].blob = "failed"]
            /\ UNCHANGED <<notesStore, file, wfails>>
    /\ UNCHANGED <<clock, last, loaded, storeKind>>

\* DELETE /api/data/:id up to its await (express matches no empty :id, so the 400
\* branch is never taken): 404 when findNote finds nothing; the blob deletion is
\* started when the note has a publicId; else deleteNote is called at once.
DeleteStart(r, id) ==
    /\ Fresh(r)
    /\ LET found == findNoteOn(storeKind, notesStore, file, id).ret
           req == [NoReq EXCEPT !.kind = "delete", !.id = id, !.note = found]
       IN  CASE found = <<>> ->
                  /\ reqs' = [reqs EXCEPT ![r] = [req EXCEPT !.pc = "done", !.status = 404]]
                  /\ UNCHANGED <<notesStore, file, wfails>>
             [] found # <<>> /\ found[1].publicId # NoString ->
                  /\ reqs' = [reqs EXCEPT ![r] =
                         [req EXCEPT !.pc = "awaitDestroy", !.blob = "pending",
                                     !.publicId = found[1].publicId]]
                  /\ UNCHANGED <<notesStore, file, wfails>>
             [] OTHER ->
                  \E w \in Outcomes :
                     LET d == deleteNoteOn(storeKind, notesStore, file, id, w)
                     IN  /\ notesStore' = d.store
                         /\ file' = d.file
                         /\ wfails' = wfails + FailedIn(d, w)
                         /\ reqs' = [reqs EXCEPT ![r] =
                                [req EXCEPT !.pc = "done", !.status = 200, !.ret = d.ret]]
    /\ UNCHANGED <<clock, last, loaded, storeKind>>

\* DELETE /api/data/:id without the inner try: a failing destroy reaches the
\* outer catch, which answers 500 before deleteNote is called.
DeleteFinishStoppedByError(r, ok) ==
    /\ reqs[r].kind = "delete" /\ reqs[r].pc = "awaitDestroy"
    /\ IF ok
       THEN \E w \in Outcomes :
               LET d == deleteNoteOn(storeKind, notesStore, file, reqs[r].id, w)
               IN  /\ notesStore' = d.store
                   /\ file' = d.file
                   /\ wfails' = wfails + FailedIn(d, w)
                   /\ reqs' = [reqs EXCEPT ![r].pc = "done", ![r].status = 200,
                                           ![r].blob = "ok", ![r].ret = d.ret]
       ELSE /\ reqs' = [reqs EXCEPT ![r].pc = "done", ![r].status = 500,
                                    ![r].blob = "failed"]
            /\ UNCHANGED <<notesStore, file, wfails>>
    /\ UNCHANGED <<clock, last, loaded, storeKind>>

\* DELETE /api/data/:id after its await: whether cloudinary's destroy succeeded
\* (ok) or threw, deleteNote is called and 200 is answered.
DeleteFinish(r, ok) ==
    /\ reqs[r].kind = "delete" /\ reqs[r].pc = "awaitDestroy"
    /\ \E w \in Outcomes :
          LET d == deleteNoteOn(storeKind, notesStore, file, reqs[r].id, w)
          IN  /\ notesStore' = d.store
              /\ file' = d.file
              /\ wfails' = wfails + FailedIn(d, w)
              /\ reqs' = [reqs EXCEPT ![r].pc = "done", ![r].status = 200,
                                      ![r].blob = IF ok THEN "ok" ELSE "failed",
                                      ![r].ret = d.ret]
    /\ UNCHANGED <<clock, last, loaded, storeKind>>

\* GET /api/notes and GET /api/data: getNotes() sorts the array in place.
ListRequest ==
    /\ notesStore' = getNotesOn(storeKind, notesStore, file).store
    /\ UNCHANGED <<file, clock, reqs, last, wfails, loaded, storeKind>>

\* The store module, its exported functions called by a user of the module.
StoreNext ==
    \/ GetNotes
    \/ \E n \in CallerNotes : AddNote(n)
    \/ \E id \in CallerIds : DeleteNote(id)
    \/ \E id \in CallerIds : FindNote(id)

StoreSpec == Init /\ [][StoreNext]_vars

\* The store module from the start of the process: loadNotes() at import,
\* then its exported functions.
LoadNext ==
    \/ LoadNotes
    \/ StoreNext

LoadSpec == InitBoot /\ [][LoadNext]_vars

\* The server: its handlers are the callers of the store.
Next ==
    \/ Tick
    \/ ListRequest
    \/ \E r \in ReqIds, form \in UploadForms : UploadStart(r, form.hasFile, form.title)
    \/ \E r \in ReqIds, ok \in BOOLEAN : UploadFinish(r, ok)
    \/ \E r \in ReqIds, id \in Ids : DeleteStart(r, id)
    \/ \E r \in ReqIds, ok \in BOOLEAN : DeleteFinish(r, ok)

Spec == Init /\ [][Next]_vars

\* ------------------------------------------------------------ vocabulary
\* The number of records of s with identifier id.
Count(s, id) == Cardinality({i \in 1..Len(s) : s[i].id = id})

\* s is ordered by creation instant, latest first.
IsSortedDesc(s) ==
    \A i \in 1..(Len(s) - 1) : TimeOf(s[i].createdAt) >= TimeOf(s[i + 1].createdAt)

\* a and b hold the same records, each as many times.
SameRecords(a, b) ==
    /\ Len(a) = Len(b)
    /\ \A i \in 1..Len(a) :
          Cardinality({j \in 1..Len(a) : a[j] = a[i]}) =
          Cardinality({j \in 1..Len(b) : b[j] = a[i]})

\* What reloading the file yields is what the collection serializes to.
FileMirrorsStore ==
    file.kind = "json" /\ JSONParse(file.data) = JSONParse(JSONStringify(notesStore))

\* ------------------------------------------------------------------ C1
\* C1: every call of getNotes() returns the records of the collection, each as
\* many times as the collection held it, latest creation instant first; the
\* array returned is the collection itself.
C1_ListSortedDescending ==
    [][GetNotes =>
          /\ IsSortedDesc(last'.ret)
          /\ SameRecords(last'.ret, notesStore)
          /\ last'.ret = notesStore']_vars

\* A list of three records with distinct instants has been returned.
C1_Witness ==
    /\ last.op = "list"
    /\ Len(last.ret) = 3
    /\ TimeOf(last.ret[1].createdAt) > TimeOf(last.ret[3].createdAt)
    /\ last.ret = notesStore

\* ------------------------------------------------------------------ C2
\* C2 as stated: after addNote(r), findNote(r.id) returns r, whatever the
\* collection held before.
C2_AddThenFindAlways ==
    [][\A n \in CallerNotes :
          AddNote(n) => findNoteOn(storeKind', notesStore', file', n.id).ret = <<n>>]_vars

\* C2 amended: after addNote(r) in a collection that is an array and where no
\* record has the identifier r.id, findNote(r.id) returns r.
C2_AddThenFindWhenIdIsNew ==
    [][\A n \in CallerNotes :
          (AddNote(n) /\ storeKind = "array" /\ Count(notesStore, n.id) = 0)
             => findNoteOn(storeKind', notesStore', file', n.id).ret = <<n>>]_vars

\* A record with a new identifier was added behind another record, and
\* findNote returns it.
C2_Witness ==
    /\ last.op = "add"
    /\ storeKind = "array"
    /\ Len(notesStore) >= 2
    /\ Count(notesStore, last.id) = 1
    /\ findNoteOn(storeKind, notesStore, file, last.id).ret = last.note
    /\ notesStore[Len(notesStore)] = last.note[1]

\* ------------------------------------------------------------------ C3
\* C3 as stated: deleteNote(id) for a present id returns a record with that
\* id, and findNote(id) right afterwards finds nothing.
C3_RemoveThenFindNothing ==
    [][\A id \in CallerIds :
          (DeleteNote(id) /\ Count(notesStore, id) >= 1)
             => /\ last'.ret # <<>>
                /\ last'.ret[1].id = id
                /\ findNote(notesStore', id) = <<>>]_vars

\* C3 amended: deleteNote(id) for a present id returns the first record with
\* that id; when exactly one record has that id, findNote(id) right afterwards
\* finds nothing.
C3_RemoveThenFindNothingWhenUnique ==
    [][\A id \in CallerIds :
          (DeleteNote(id) /\ Count(notesStore, id) >= 1)
             => /\ last'.ret = findNote(notesStore, id)
                /\ last'.ret # <<>>
                /\ last'.ret[1].id = id
                /\ (Count(notesStore, id) = 1 => findNote(notesStore', id) = <<>>)]_vars

\* A record was removed from among others and its id is no longer found.
C3_Witness ==
    /\ last.op = "remove"
    /\ last.ret # <<>>
    /\ last.ret[1].id = last.id
    /\ notesStore # <<>>
    /\ findNote(notesStore, last.id) = <<>>

\* ------------------------------------------------------------------ C4
\* C4: deleteNote(id) for an id no record has returns null and leaves the
\* collection and the file as they were; no write is attempted.
C4_RemoveAbsentChangesNothing ==
    [][\A id \in CallerIds :
          (DeleteNote(id) /\ Count(notesStore, id) = 0)
             => /\ last'.ret = <<>>
                /\ notesStore' = notesStore
                /\ file' = file
                /\ ~last'.wrote]_vars

\* deleteNote found nothing in a non-empty collection whose file is out of
\* date (a write would have changed the file).
C4_Witness ==
    /\ last.op = "remove"
    /\ last.ret = <<>>
    /\ notesStore # <<>>
    /\ Count(notesStore, last.id) = 0
    /\ ~FileMirrorsStore

\* ------------------------------------------------------------------ C5
\* C5: after an addNote or a deleteNote that returned a record, the file
\* parsed as an array is the collection, record for record in the same order.
C5_FileMirrorsStoreAfterSuccess ==
    (last.op \in {"add", "remove"} /\ last.ret # <<>>) => FileMirrorsStore

\* ------------------------------------------------------------------ C6
\* C6: no two records of the collection have the same identifier, whatever
\* upload requests the server handles.
C6_UniqueIdentifiers ==
    \A i, j \in 1..Len(notesStore) : i # j => notesStore[i].id # notesStore[j].id

\* ------------------------------------------------------------------ C7
\* An answered request takes no further step.
AnsweredStays(r) == reqs[r].pc = "done" => reqs'[r] = reqs[r]

\* C7: an upload request without a file, or with a file and without a title,
\* is answered 400; it never starts a blob upload, and the step that answers it
\* leaves the collection and the file as they were.
C7_MissingInputAnswered400 ==
    [][\A r \in ReqIds :
          /\ (/\ reqs[r].kind = "none"
              /\ reqs'[r].kind = "upload"
              /\ (~reqs'[r].hasFile \/ reqs'[r].title = NoString))
                => /\ reqs'[r].status = 400
                   /\ reqs'[r].pc = "done"
                   /\ reqs'[r].blob = "none"
                   /\ notesStore' = notesStore
                   /\ file' = file
          /\ AnsweredStays(r)]_vars

\* Both cases were answered 400 while the collection held a record.
C7_Witness ==
    /\ notesStore # <<>>
    /\ \E r, q \in ReqIds :
          /\ reqs[r].kind = "upload" /\ ~reqs[r].hasFile /\ reqs[r].title = <<"A">>
          /\ reqs[r].status = 400 /\ reqs[r].blob = "none"
          /\ reqs[q].kind = "upload" /\ reqs[q].hasFile /\ reqs[q].title = NoString
          /\ reqs[q].status = 400 /\ reqs[q].blob = "none"

\* ------------------------------------------------------------------ C8
\* C8: the step in which the blob upload of an upload request fails answers
\* 500, adds no record and leaves the collection and the file as they were;
\* the request takes no step afterwards.
C8_FailedBlobUploadAddsNothing ==
    [][\A r \in ReqIds :
          /\ (/\ reqs[r].kind = "upload"
              /\ reqs[r].pc = "awaitUpload"
              /\ reqs'[r].blob = "failed")
                => /\ reqs'[r].status = 500
                   /\ reqs'[r].pc = "done"
                   /\ reqs'[r].note = <<>>
                   /\ reqs'[r].ret = <<>>
                   /\ notesStore' = notesStore
                   /\ file' = file
          /\ AnsweredStays(r)]_vars

\* An upload whose blob upload failed was answered 500 while the collection
\* held a record and was not full.
C8_Witness ==
    /\ notesStore # <<>>
    /\ Len(notesStore) < MaxNotes
    /\ \E r \in ReqIds :
          /\ reqs[r].kind = "upload" /\ reqs[r].blob = "failed"
          /\ reqs[r].status = 500 /\ reqs[r].note = <<>>

\* ------------------------------------------------------------------ C9
\* C9: a delete request for an identifier that no record of the collection has
\* (as is every identifier that was never added) is answered 404; it starts no
\* blob deletion and leaves the collection and the file as they were.
C9_DeleteUnknownAnswered404 ==
    [][\A r \in ReqIds :
          /\ (/\ reqs[r].kind = "none"
              /\ reqs'[r].kind = "delete"
              /\ Count(notesStore, reqs'[r].id) = 0)
                => /\ reqs'[r].status = 404
                   /\ reqs'[r].pc = "done"
                   /\ reqs'[r].blob = "none"
                   /\ notesStore' = notesStore
                   /\ file' = file
          /\ AnsweredStays(r)]_vars

\* A delete of the identifier no record ever has was answered 404 while the
\* collection held a record.
C9_Witness ==
    /\ notesStore # <<>>
    /\ \E r \in ReqIds :
          /\ reqs[r].kind = "delete" /\ reqs[r].id = NeverAddedId
          /\ reqs[r].status = 404 /\ reqs[r].blob = "none"

\* ------------------------------------------------------------------ C10
\* C10: the step in which the blob deletion of a delete request fails still
\* calls deleteNote(id): the first record with that identifier is taken out of
\* the collection (none with it is left when at most one had it), the request
\* holds what deleteNote returned, and 200 is answered.
C10_FailedBlobDeleteStillRemoves ==
    [][\A r \in ReqIds :
          (/\ reqs[r].kind = "delete"
           /\ reqs[r].pc = "awaitDestroy"
           /\ reqs'[r].blob = "failed")
             => LET id == reqs[r].id
                    i == FindIndex(notesStore, id)
                IN  /\ reqs'[r].status = 200
                    /\ reqs'[r].pc = "done"
                    /\ reqs'[r].ret = findNote(notesStore, id)
                    /\ notesStore' = IF i = 0 THEN notesStore ELSE Splice(notesStore, i)
                    /\ Count(notesStore, id) <= 1 => Count(notesStore', id) = 0]_vars

\* A delete whose blob deletion failed removed its record and was answered 200.
C10_Witness ==
    \E r \in ReqIds :
       /\ reqs[r].kind = "delete" /\ reqs[r].blob = "failed"
       /\ reqs[r].status = 200
       /\ reqs[r].ret # <<>> /\ reqs[r].ret[1].id = reqs[r].id
       /\ Count(notesStore, reqs[r].id) = 0

\* ------------------------------------------------------------------ C11
\* C11: addNote returns null, not the record, when the write of the file
\* raised an error.
C11_AddSignalsWriteFailure ==
    [][\A n \in CallerNotes :
          (AddNote(n) /\ wfails' > wfails) => last'.ret = <<>>]_vars

\* ------------------------------------------------------------------ C12
\* The records of a sequence.
Records(s) == {s[i] : i \in 1..Len(s)}

\* C12: the step that answers an upload request with 201 finds the blob upload
\* succeeded and addNote returning the record, and leaves the record in the
\* collection and in the file.
C12_Created201OnlyWhenStored ==
    [][\A r \in ReqIds :
          (reqs[r].pc = "awaitUpload" /\ reqs'[r].status = 201)
             => /\ reqs'[r].blob = "ok"
                /\ reqs'[r].ret # <<>>
                /\ reqs'[r].ret[1] \in Records(notesStore')
                /\ file'.kind = "json"
                /\ StringifyNote(reqs'[r].ret[1]) \in Records(JSONParse(file'.data))]_vars

\* ------------------------------------------------------------------ C13
\* C13: getNotes() leaves the collection as it was, records and order, and
\* the file as it was.
C13_ListLeavesCollectionAsItWas ==
    [][GetNotes => (notesStore' = notesStore /\ file' = file)]_vars

\* ------------------------------------------------------------------ C14
\* What the text of a present file parses to: an array, another JSON value
\* that is an object, null, or nothing when the text is no JSON.
ParsesTo(f) ==
    CASE f.kind = "json" -> "array"
      [] f.kind = "jsonObject" -> "object"
      [] f.kind = "jsonNull" -> "null"
      [] OTHER -> "nothing"

\* C14 as stated: loadNotes() leaves an absent file holding the empty array
\* with the collection empty, leaves a file that is no JSON as it is with the
\* collection empty, and makes the collection the value parsed from a file
\* that is JSON.
C14_LoadAsStated ==
    [][LoadNotes =>
          /\ file.kind = "absent" =>
                (file' = JsonFile(<<>>) /\ notesStore' = <<>> /\ storeKind' = "array")
          /\ file.kind = "corrupt" =>
                (file' = file /\ wfails' = wfails /\ notesStore' = <<>> /\ storeKind' = "array")
          /\ ParsesTo(file) # "nothing" /\ file.kind # "absent" =>
                (storeKind' = ParsesTo(file) /\ notesStore' = JSONParse(file.data))]_vars

\* C14 amended: on an absent file loadNotes() makes the collection empty and
\* writes the empty array, the file staying absent when that write throws; on
\* a file that is no JSON, and on one whose JSON is null, the collection is
\* empty and nothing is written; on a file holding a JSON array or object the
\* collection is the parsed value and nothing is written.
C14_LoadCreatesOrReads ==
    [][LoadNotes =>
          /\ file.kind = "absent" =>
                /\ notesStore' = <<>> /\ storeKind' = "array"
                /\ \/ file' = JsonFile(<<>>) /\ wfails' = wfails
                   \/ file' = file /\ wfails' = wfails + 1
          /\ (file.kind = "corrupt" \/ ParsesTo(file) = "null") =>
                (file' = file /\ wfails' = wfails /\ notesStore' = <<>> /\ storeKind' = "array")
          /\ ParsesTo(file) \in {"array", "object"} =>
                /\ file' = file /\ wfails' = wfails
                /\ storeKind' = ParsesTo(file) /\ notesStore' = JSONParse(file.data)
          /\ loaded']_vars

\* loadNotes() has run on an absent file and its write has thrown: the
\* collection is empty and there is still no file.
C14_Witness ==
    /\ loaded /\ last = NoCall
    /\ file.kind = "absent" /\ wfails = 1
    /\ notesStore = <<>> /\ storeKind = "array"

\* ------------------------------------------------------------------ C15
\* The step of upload request r that adds a record to the collection.
UploadAdds(r) ==
    /\ reqs[r].kind = "upload" /\ reqs[r].pc = "awaitUpload"
    /\ Len(notesStore') = Len(notesStore) + 1

\* The record a step has appended to the collection.
Added == notesStore'[Len(notesStore')]

\* C15: a record the upload handler adds has a title that is not empty.
C15_AddedTitleNotEmpty ==
    [][\A r \in ReqIds : UploadAdds(r) => Added.title # NoString]_vars

\* ------------------------------------------------------------------ C16
\* C16: the collection grows only in the step of an upload request that
\* resumes from its await with the blob upload completed; the record that step
\* appends carries the storage id the request gave to the blob upload and the
\* URL of that upload, so no record is in the collection while its blob upload
\* is pending or after it failed.
C16_AddOnlyAfterBlobUpload ==
    [][(Len(notesStore') > Len(notesStore))
          => \E r \in ReqIds :
                /\ UploadAdds(r)
                /\ reqs[r].blob = "pending" /\ reqs'[r].blob = "ok"
                /\ notesStore' = Append(notesStore, Added)
                /\ Added.publicId = reqs[r].publicId
                /\ Added.publicId # NoString
                /\ Added.fileUrl = SecureUrl(reqs[r].publicId)
                /\ \A q \in ReqIds \ {r} : reqs'[q] = reqs[q]]_vars

\* A record of an upload whose blob upload completed is in the collection
\* while the blob upload of another request is still pending.
C16_Witness ==
    \E r, q \in ReqIds :
       /\ reqs[r].kind = "upload" /\ reqs[r].status = 201 /\ reqs[r].blob = "ok"
       /\ reqs[r].note # <<>> /\ reqs[r].note[1] \in Records(notesStore)
       /\ reqs[r].note[1].publicId = reqs[r].publicId
       /\ reqs[q].kind = "upload" /\ reqs[q].pc = "awaitUpload" /\ reqs[q].blob = "pending"
       /\ reqs[q].note = <<>>

\* ------------------------------------------------------------------ C17
\* C17: no call of getNotes, addNote, deleteNote or findNote ends with an
\* exception reaching the caller; on a collection that is no array getNotes
\* returns the empty array and addNote, deleteNote and findNote return null.
C17_NoExceptionReachesCaller ==
    /\ ~last.threw
    /\ (storeKind # "array" /\ last.op \in {"list", "add", "remove", "find"})
          => (last.ret = <<>> /\ ~last.wrote)

\* addNote was called on a collection parsed from a file that holds a JSON
\* object, and returned null.
C17_Witness ==
    /\ storeKind = "object" /\ file = JsonObjectFile
    /\ last.op = "add" /\ last.note # <<>> /\ last.ret = <<>> /\ ~last.threw

\* ------------------------------------------------------------------ C18
\* C18: deleteNote(id) with a record of that id in the collection takes out
\* the first such record and returns it: the collection is one shorter, the
\* records before that one keep their places and those after it, records with
\* the same id among them, move up by one in their order.
C18_RemoveTakesFirstMatchOnly ==
    [][\A id \in CallerIds :
          (DeleteNote(id) /\ Count(notesStore, id) > 0)
             => \E i \in 1..Len(notesStore) :
                   /\ notesStore[i].id = id
                   /\ \A j \in 1..(i - 1) : notesStore[j].id # id
                   /\ Len(notesStore') = Len(notesStore) - 1
                   /\ \A j \in 1..(i - 1) : notesStore'[j] = notesStore[j]
                   /\ \A j \in i..(Len(notesStore) - 1) : notesStore'[j] = notesStore[j + 1]
                   /\ last'.ret = <<notesStore[i]>>]_vars

\* deleteNote has returned a record while a different record with the same id
\* stays in the collection next to a record with another id.
C18_Witness ==
    /\ last.op = "remove" /\ last.ret # <<>>
    /\ Count(notesStore, last.id) > 0
    /\ \E i \in 1..Len(notesStore) :
          notesStore[i].id = last.id /\ notesStore[i] # last.ret[1]
    /\ \E i \in 1..Len(notesStore) : notesStore[i].id # last.id

\* ------------------------------------------------------------------ C20
\* The records a step may bring into the collection: the argument of a direct
\* addNote call and the note an upload request has just made.
NewRecords ==
    Records(last'.note) \cup
    UNION {IF reqs'[r].kind = "upload" /\ reqs[r].pc = "awaitUpload"
           THEN Records(reqs'[r].note) ELSE {} : r \in ReqIds}

\* C20: a record keeps its attribute values while it is in the collection:
\* after any step every record of the collection is, attribute for attribute,
\* a record the collection held before the step or the record the step added,
\* and a step that adds nothing and removes nothing holds the same records.
C20_RecordsKeepTheirValues ==
    [][/\ Records(notesStore') \subseteq Records(notesStore) \cup NewRecords
       /\ Len(notesStore') = Len(notesStore) => SameRecords(notesStore', notesStore)]_vars

\* The record loaded from the file is in the collection with the values it was
\* loaded with, after an upload has added a record, a list has put that record
\* before it, and a delete request has found it.
C20_Witness ==
    /\ Len(notesStore) = 2
    /\ notesStore[2] = OldNote
    /\ \E r, q \in ReqIds :
          /\ reqs[r].kind = "upload" /\ reqs[r].status = 201
          /\ reqs[r].note = <<notesStore[1]>>
          /\ reqs[q].kind = "delete" /\ reqs[q].pc = "awaitDestroy"
          /\ reqs[q].note = <<OldNote>>

\* ------------------------------------------------------------------ C19
\* Delete requests r and q overlap on one record: both have called findNote
\* for the same id and found the same record, and r is waiting for the blob
\* deletion while q is waiting for it too or has gone on since.
Overlapping(r, q) ==
    /\ r # q
    /\ reqs[r].kind = "delete" /\ reqs[r].pc = "awaitDestroy"
    /\ reqs[q].kind = "delete" /\ reqs[q].pc \in {"awaitDestroy", "done"}
    /\ reqs[q].id = reqs[r].id
    /\ reqs[r].note # <<>> /\ reqs[q].note = reqs[r].note

\* No two records of the collection have the same id.
UniqueIds(s) == \A i, j \in 1..Len(s) : s[i].id = s[j].id => i = j

\* C19: with unique ids, when one of two overlapping delete requests for an
\* id goes on to deleteNote, the collection afterwards is the collection before
\* without the record of that id, every other record as it was and where it
\* was, and the file holds the collection.
C19_OverlappingDeletesRemoveOne ==
    [][\A r, q \in ReqIds :
          (Overlapping(r, q) /\ UniqueIds(notesStore) /\ reqs'[r].pc = "done")
             => /\ notesStore' = SelectSeq(notesStore, LAMBDA n : n.id # reqs[r].id)
                /\ reqs'[r].status = 200
                /\ FileMirrorsStore']_vars

====
